---- MODULE Spec2Model ----
(***************************************************************************)
(* Model of the example image classifiers of singa-auto:                   *)
(*   examples/models/image_classification/PyDenseNetBc.py                  *)
(*   examples/models/image_classification/TfVgg16.py                       *)
(* The utilities RunningAverage and EarlyStopCondition, the training loop  *)
(* of PyDenseNetBc and the parameter export / import of both classes.      *)
(***************************************************************************)
EXTENDS Integers, Sequences, FiniteSets, TLC

(***************************************************************************)
(* Python floats (IEEE-754 binary64, round to nearest even).               *)
(* A natural number is a little-endian sequence of bits without leading    *)
(* zeros; a float is [k, s, m, e]: kind "fin" or "inf", sign s in          *)
(* {-1, 0, 1}, mantissa m of exactly MantissaBits bits, value s*m*2^e.     *)
(***************************************************************************)
MantissaBits == 53
GuardBits == 8

Max2(mxa, mxb) == IF mxa >= mxb THEN mxa ELSE mxb
Min2(mna, mnb) == IF mna <= mnb THEN mna ELSE mnb
AbsInt(ai) == IF ai < 0 THEN -ai ELSE ai

Zeros(zk) == [zi \in 1..zk |-> 0]

\* the element of a one-element set. Operators below bind their arguments
\* and intermediate results as { e(v) : v \in {value} }, which evaluates each
\* of them exactly once.
Only(oneSet) == CHOOSE ov \in oneSet : TRUE

\* drop the leading (most significant) zeros
BNorm(nb) ==
    Only({Only({IF ones = {} THEN <<>>
                ELSE SubSeq(nv, 1, CHOOSE ni \in ones : \A nj \in ones : nj <= ni) :
                   ones \in {{ni \in 1..Len(nv) : nv[ni] = 1}}}) :
             nv \in {nb}})

RECURSIVE BFromNat(_)
BFromNat(nat) == IF nat = 0 THEN <<>> ELSE <<nat % 2>> \o BFromNat(nat \div 2)

BPad(pa, pn) == Only({pv \o Zeros(pn - Len(pv)) : pv \in {pa}})

\* the carry into position ci of xv + yv + cv: the bit of the nearest lower
\* position where both agree, the carry-in if there is none
CarryInto(xv, yv, cv, ci) ==
    IF \A ck \in 1..(ci - 1) : xv[ck] # yv[ck] THEN cv
    ELSE xv[CHOOSE ck \in 1..(ci - 1) :
                xv[ck] = yv[ck] /\ \A cj \in (ck + 1)..(ci - 1) : xv[cj] # yv[cj]]

\* sum bits and carry out of two equally long bit sequences
BAddC(xs, ys, cin) ==
    Only({[s |-> [ai \in 1..Len(xv) |-> (xv[ai] + yv[ai] + CarryInto(xv, yv, cv, ai)) % 2],
           c |-> CarryInto(xv, yv, cv, Len(xv) + 1)] :
             xv \in {xs}, yv \in {ys}, cv \in {cin}})

BAdd(aa, ab) ==
    Only({Only({BNorm(asum.s \o <<asum.c>>) :
                   asum \in {BAddC(BPad(av, Max2(Len(av), Len(bv))),
                                   BPad(bv, Max2(Len(av), Len(bv))), 0)}}) :
             av \in {aa}, bv \in {ab}})

\* the borrow into position bi of uv - vv - bv: set by the nearest lower
\* position where both differ, the borrow-in if there is none
BorrowInto(uv, vv, bv, bi) ==
    IF \A bk \in 1..(bi - 1) : uv[bk] = vv[bk] THEN bv
    ELSE vv[CHOOSE bk \in 1..(bi - 1) :
                uv[bk] # vv[bk] /\ \A bj \in (bk + 1)..(bi - 1) : uv[bj] = vv[bj]]

\* difference bits and borrow out of two equally long bit sequences
BSubC(us, vs, bin) ==
    Only({[s |-> [si \in 1..Len(uv) |->
                    (uv[si] - vv[si] - BorrowInto(uv, vv, bv, si) + 2) % 2],
           c |-> BorrowInto(uv, vv, bv, Len(uv) + 1)] :
             uv \in {us}, vv \in {vs}, bv \in {bin}})

\* sa - sb for sa >= sb
BSub(sa, sb) ==
    Only({BNorm(BSubC(sv, BPad(tv, Len(sv)), 0).s) : sv \in {sa}, tv \in {sb}})

\* -1, 0, 1 as ca < cb, ca = cb, ca > cb (both without leading zeros)
BCmp(ca, cb) ==
    Only({IF Len(cv) < Len(dv) THEN -1
          ELSE IF Len(cv) > Len(dv) THEN 1
          ELSE Only({IF diff = {} THEN 0
                     ELSE IF cv[CHOOSE ci \in diff : \A cj \in diff : cj <= ci] = 0
                     THEN -1 ELSE 1 :
                        diff \in {{ci \in 1..Len(cv) : cv[ci] # dv[ci]}}}) :
             cv \in {ca}, dv \in {cb}})

BShl(la, lk) == Only({IF lv = <<>> THEN <<>> ELSE Zeros(lk) \o lv : lv \in {la}})

\* ms * factor for a small factor >= 0
RECURSIVE BMulSmall(_, _)
BMulSmall(ms, factor) ==
    Only({IF fv = 0 THEN <<>>
          ELSE BAdd(IF fv % 2 = 1 THEN mv ELSE <<>>,
                    BShl(BMulSmall(mv, fv \div 2), 1)) :
             mv \in {ms}, fv \in {factor}})

TwoTo == <<1, 2, 4, 8, 16, 32, 64, 128, 256>>

BitAt(bs, bi) == IF bi <= Len(bs) THEN bs[bi] ELSE 0

\* the number a sequence of at most 8 bits stands for
ChunkValue(cb) ==
    BitAt(cb, 1) + 2 * BitAt(cb, 2) + 4 * BitAt(cb, 3) + 8 * BitAt(cb, 4)
    + 16 * BitAt(cb, 5) + 32 * BitAt(cb, 6) + 64 * BitAt(cb, 7) + 128 * BitAt(cb, 8)

\* quotient bits and remainder of (rem * 2^Len(ds) + ds) by divisor: chunks
\* of 8 bits are divided as numbers, longer sequences high half first
RECURSIVE BDivR(_, _, _)
BDivR(ds, divisor, rem) ==
    Only({IF Len(dv) < Len(TwoTo)
          THEN Only({[q |-> [qi \in 1..Len(dv) |-> ((num \div divisor) \div TwoTo[qi]) % 2],
                      r |-> num % divisor] :
                        num \in {rv * TwoTo[Len(dv) + 1] + ChunkValue(dv)}})
          ELSE Only({Only({[q |-> dlo.q \o dhi.q, r |-> dlo.r] :
                              dlo \in {BDivR(SubSeq(dv, 1, Len(dv) \div 2), divisor,
                                             dhi.r)}}) :
                        dhi \in {BDivR(SubSeq(dv, (Len(dv) \div 2) + 1, Len(dv)),
                                       divisor, rv)}}) :
             dv \in {ds}, rv \in {rem}})

\* quotient and remainder of da by the small divisor dv > 0
BDivSmall(da, dv) ==
    Only({[q |-> BNorm(qr.q), r |-> qr.r] : qr \in {BDivR(da, dv, 0)}})

FZero == [k |-> "fin", s |-> 0, m |-> <<>>, e |-> 0]
PosInf == [k |-> "inf", s |-> 1, m |-> <<>>, e |-> 0]
NegInf == [k |-> "inf", s |-> -1, m |-> <<>>, e |-> 0]

\* round to nearest even the normalised magnitude rb (more than MantissaBits
\* bits) with the sticky flag
RoundBits(rb, sticky) ==
    Only({IF /\ rv[Len(rv) - MantissaBits] = 1
             /\ \/ sticky
                \/ \E ri \in 1..(Len(rv) - MantissaBits - 1) : rv[ri] = 1
                \/ rv[Len(rv) - MantissaBits + 1] = 1
          THEN BAdd(SubSeq(rv, Len(rv) - MantissaBits + 1, Len(rv)), <<1>>)
          ELSE SubSeq(rv, Len(rv) - MantissaBits + 1, Len(rv)) :
             rv \in {rb}})

\* the float nearest to sgn * (mag + f) * 2^ex, where 0 <= f < 1 and f > 0 iff sticky
FRound(sgn, mag, ex, sticky) ==
    Only({IF rb = <<>> THEN FZero
          ELSE IF Len(rb) <= MantissaBits
          THEN [k |-> "fin", s |-> sgn, m |-> Zeros(MantissaBits - Len(rb)) \o rb,
                e |-> xv - (MantissaBits - Len(rb))]
          ELSE Only({IF Len(rounded) > MantissaBits
                     THEN [k |-> "fin", s |-> sgn,
                           m |-> SubSeq(rounded, 2, Len(rounded)),
                           e |-> xv + (Len(rb) - MantissaBits) + 1]
                     ELSE [k |-> "fin", s |-> sgn, m |-> rounded,
                           e |-> xv + (Len(rb) - MantissaBits)] :
                        rounded \in {RoundBits(rb, sticky)}}) :
             rb \in {BNorm(mag)}, xv \in {ex}})

FromInt(fi) ==
    IF fi = 0 THEN FZero
    ELSE FRound(IF fi < 0 THEN -1 ELSE 1, BFromNat(AbsInt(fi)), 0, FALSE)

\* fx * fc for a float fx and a count fc >= 0
FMulInt(fx, fc) ==
    Only({IF xv.s = 0 \/ fc = 0 THEN FZero
          ELSE FRound(xv.s, BMulSmall(xv.m, fc), xv.e, FALSE) :
             xv \in {fx}})

\* fy / fd for a float fy and a count fd > 0
FDivInt(fy, fd) ==
    Only({IF yv.s = 0 THEN FZero
          ELSE Only({FRound(yv.s, fqr.q, yv.e - GuardBits, fqr.r # 0) :
                        fqr \in {BDivSmall(BShl(yv.m, GuardBits), fd)}}) :
             yv \in {fy}})

\* the sum of two finite, nonzero floats with mantissas aligned at exponent fe
FAddAligned(fa, fA, fb, fB, fe) ==
    IF fa.s = fb.s THEN FRound(fa.s, BAdd(fA, fB), fe, FALSE)
    ELSE Only({IF fcmp = 0 THEN FZero
               ELSE IF fcmp > 0 THEN FRound(fa.s, BSub(fA, fB), fe, FALSE)
               ELSE FRound(fb.s, BSub(fB, fA), fe, FALSE) :
                  fcmp \in {BCmp(fA, fB)}})

FAdd(fa, fb) ==
    Only({IF av.s = 0 THEN bv
          ELSE IF bv.s = 0 THEN av
          ELSE Only({FAddAligned(av, mA, bv, mB, Min2(av.e, bv.e)) :
                        mA \in {BShl(av.m, av.e - Min2(av.e, bv.e))},
                        mB \in {BShl(bv.m, bv.e - Min2(av.e, bv.e))}}) :
             av \in {fa}, bv \in {fb}})

\* lx < ly
FLess(lx, ly) ==
    IF lx.k = "inf" THEN lx.s < 0 /\ ly # lx
    ELSE IF ly.k = "inf" THEN ly.s > 0
    ELSE IF lx.s # ly.s THEN lx.s < ly.s
    ELSE IF lx.s = 0 THEN FALSE
    ELSE LET lc == IF lx.e # ly.e THEN (IF lx.e < ly.e THEN -1 ELSE 1)
                   ELSE BCmp(lx.m, ly.m)
         IN  IF lx.s > 0 THEN lc < 0 ELSE lc > 0

(***************************************************************************)
(* State.                                                                  *)
(*   ra, ra_hist    a RunningAverage and the values added to it            *)
(*   esc, esc_log   an EarlyStopCondition and one entry per call of check: *)
(*                  the value, the result, wait-counter and best-seen      *)
(*                  after the call                                         *)
(* A PyDenseNetBc instance and the position of its train call:             *)
(*   knobs          self._knobs                                            *)
(*   train_params   self._train_params ([set |-> FALSE] before it exists)  *)
(*   model          self._model = (net, step); net is the state dict of    *)
(*                  the network, shared with the local net of _train_model *)
(*   pc             position: "new", "epoch", "train", "val", "finish",    *)
(*                  "done", "error"; "trial" before get_trial_config,      *)
(*                  "exported" after get_shared_parameters, "share",       *)
(*                  "shared", "share_loaded" and "split", "split_done" in  *)
(*                  the export / import and the split of single calls      *)
(*   epoch, step    locals of _train_model                                 *)
(*   tb, vb         batches consumed of the two data loaders               *)
(*   train_loss, train_val_loss   the RunningAverage of each pass          *)
(*   train_dataset, train_val_dataset   the samples of the split           *)
(*   opt_steps, val_seen   optimizer steps applied and validation batches  *)
(*                  evaluated so far                                       *)
(*   shared_in      the shared_params argument of train                    *)
(*   err            the exception raised to the caller ("none" if none)    *)
(* Export and import of parameters:                                        *)
(*   params_dir     the directory save_parameters wrote: file name ->      *)
(*                  content                                                *)
(*   loaded         a second PyDenseNetBc instance, the one that imports   *)
(*   tf, tf_loaded  a TfVgg16 instance that trains and exports, and one    *)
(*                  that imports                                           *)
(*   tf_params      the dictionary dump_parameters returned                *)
(*   arg            the argument of the last load_parameters call, or the  *)
(*                  (trial_no, total_trials) of get_trial_config           *)
(*   last           the last export / import / evaluate / configuration    *)
(*                  call: its name, the exception it raised and what it    *)
(*                  returned                                               *)
(***************************************************************************)
VARIABLES ra, ra_hist, esc, esc_log,
          knobs, train_params, model, pc, epoch, step, tb, vb,
          train_loss, train_val_loss, train_dataset, train_val_dataset,
          opt_steps, val_seen, shared_in, err,
          params_dir, loaded, tf, tf_loaded, tf_params, arg, last

raVars == <<ra, ra_hist>>
escVars == <<esc, esc_log>>
loopVars == <<pc, epoch, step, tb, vb, train_loss, train_val_loss,
              train_dataset, train_val_dataset, opt_steps, val_seen, shared_in>>
pyVars == <<knobs, train_params, model, err>>
paramVars == <<params_dir, loaded, tf, tf_loaded, tf_params, arg, last>>
vars == <<raVars, escVars, loopVars, pyVars, paramVars>>

\* bounds of the exploration
MaxAdds == 3
RASpan == 2
RAValues == (-RASpan)..(RASpan + 1)

MaxChecks == 4
MaxPatience == 2
NegPatiences == 2
ESCSpan == 3
Patiences == (-NegPatiences)..MaxPatience
ESCValues == {FromInt(i) : i \in 4..(4 + ESCSpan)} \cup {PosInf, NegInf}

(***************************************************************************)
(* RunningAverage                                                          *)
(***************************************************************************)
RA_init == [avg |-> FZero, count |-> 0]

\* a slip in the update: the old average is weighted by count + 1
RA_add_unweighted(r, val) ==
    [avg |-> FAdd(FDivInt(FMulInt(r.avg, r.count + 1), r.count + 1),
                  FDivInt(val, r.count + 1)),
     count |-> r.count + 1]

RA_add(r, val) ==
    [avg |-> FAdd(FDivInt(FMulInt(r.avg, r.count), r.count + 1),
                  FDivInt(val, r.count + 1)),
     count |-> r.count + 1]

RA_get(r) == r.avg

(***************************************************************************)
(* EarlyStopCondition                                                      *)
(***************************************************************************)
ESC_init(patience, if_max) ==
    [patience |-> patience, if_max |-> if_max,
     last_best |-> IF if_max THEN NegInf ELSE PosInf,
     wait_count |-> 0]

ESC_improves(c, value) ==
    \/ ~c.if_max /\ FLess(value, c.last_best)
    \/ c.if_max /\ FLess(c.last_best, value)

\* slip: the stop test uses > instead of >=
ESC_check_gt(c, value) ==
    IF c.patience < 0 THEN [esc |-> c, ret |-> FALSE]
    ELSE LET d == IF ESC_improves(c, value)
                  THEN [c EXCEPT !.wait_count = 0, !.last_best = value]
                  ELSE [c EXCEPT !.wait_count = c.wait_count + 1]
         IN  [esc |-> d, ret |-> d.wait_count > d.patience]

\* slip: a value equal to best-seen counts as an improvement
ESC_check_le(c, value) ==
    IF c.patience < 0 THEN [esc |-> c, ret |-> FALSE]
    ELSE LET d == IF ESC_improves(c, value) \/ value = c.last_best
                  THEN [c EXCEPT !.wait_count = 0, !.last_best = value]
                  ELSE [c EXCEPT !.wait_count = c.wait_count + 1]
         IN  [esc |-> d, ret |-> d.wait_count >= d.patience]

\* slip: the disabled test is missing
ESC_check_noguard(c, value) ==
    LET d == IF ESC_improves(c, value)
             THEN [c EXCEPT !.wait_count = 0, !.last_best = value]
             ELSE [c EXCEPT !.wait_count = c.wait_count + 1]
    IN  [esc |-> d, ret |-> d.wait_count >= d.patience]

\* slip: an improvement records the new best but keeps the wait-counter, so
\* a stop signal stays on
ESC_check_latched(c, value) ==
    IF c.patience < 0 THEN [esc |-> c, ret |-> FALSE]
    ELSE LET d == IF ESC_improves(c, value)
                  THEN [c EXCEPT !.last_best = value]
                  ELSE [c EXCEPT !.wait_count = c.wait_count + 1]
         IN  [esc |-> d, ret |-> d.wait_count >= d.patience]

\* the state after check(value) and the value it returns
ESC_check(c, value) ==
    IF c.patience < 0 THEN [esc |-> c, ret |-> FALSE]
    ELSE LET d == IF ESC_improves(c, value)
                  THEN [c EXCEPT !.wait_count = 0, !.last_best = value]
                  ELSE [c EXCEPT !.wait_count = c.wait_count + 1]
         IN  [esc |-> d, ret |-> d.wait_count >= d.patience]

ESC_entry(res, value) ==
    [value |-> value, ret |-> res.ret, wait |-> res.esc.wait_count,
     best |-> res.esc.last_best]

(***************************************************************************)
(* Strings (sequences of characters), dictionaries (functions) and the     *)
(* torch / numpy values PyDenseNetBc handles.                              *)
(***************************************************************************)
NetPrefix == <<"n", "e", "t">>
StepKey == <<"s", "t", "e", "p">>
EmptyDict == <<>>

\* str.startswith(pre)
StartsWith(str, pre) == Len(str) >= Len(pre) /\ SubSeq(str, 1, Len(pre)) = pre

\* str.split(sep)
Split(str, sep) ==
    LET at == {pi \in 1..Len(str) : str[pi] = sep}
        cut(pk) == IF pk = 0 THEN 0
                   ELSE IF pk = Cardinality(at) + 1 THEN Len(str) + 1
                   ELSE CHOOSE pp \in at : Cardinality({pq \in at : pq < pp}) = pk - 1
    IN  [pk \in 1..(Cardinality(at) + 1) |-> SubSeq(str, cut(pk - 1) + 1, cut(pk) - 1)]

\* sep.join(parts)
RECURSIVE Join(_, _)
Join(parts, sep) ==
    IF parts = <<>> THEN <<>>
    ELSE IF Len(parts) = 1 THEN parts[1]
    ELSE parts[1] \o <<sep>> \o Join(Tail(parts), sep)

\* '{}:{}'.format(prefix, name)
FormatKey(prefix, name) == prefix \o <<":">> \o name

Tensor(tv) == [t |-> "tensor", v |-> tv]
\* tensor.cpu().numpy(), torch.from_numpy(array), np.asarray(int), int(array)
ToNumpy(tt) == [t |-> "ndarray", v |-> tt.v]
FromNumpy(ta) == [t |-> "tensor", v |-> ta.v]
AsArray(ti) == [t |-> "ndarray", v |-> ti]
IntOf(tarr) == tarr.v

(***************************************************************************)
(* Python values as json sees them: int, float, list; a dict is a function *)
(* from its keys. Text is a sequence of characters; a JSON document is the *)
(* sequence of its tokens: punctuation, quoted strings, number literals.   *)
(***************************************************************************)
PyInt(pi) == [t |-> "int", i |-> pi]
PyFloat(pf) == [t |-> "float", f |-> pf]
PyList(pl) == [t |-> "list", l |-> pl]

\* a list of floats as json sees it
FloatList(fl) == PyList([fi \in 1..Len(fl) |-> PyFloat(fl[fi])])

Digits == <<"0", "1", "2", "3", "4", "5", "6", "7", "8", "9">>
DigitValue(dc) == (CHOOSE di \in 1..10 : Digits[di] = dc) - 1

RECURSIVE Pow10(_)
Pow10(pk) == IF pk = 0 THEN 1 ELSE 10 * Pow10(pk - 1)

\* str(n) for n >= 0
RECURSIVE NatRepr(_)
NatRepr(nn) ==
    IF nn < 10 THEN <<Digits[nn + 1]>>
    ELSE NatRepr(nn \div 10) \o <<Digits[(nn % 10) + 1]>>

\* the digits padded on the left with zeros to width nw
ZeroPadded(nn, nw) ==
    Only({[zi \in 1..(nw - Len(zd)) |-> "0"] \o zd : zd \in {NatRepr(nn)}})

\* int.__repr__
IntRepr(ii) == IF ii < 0 THEN <<"-">> \o NatRepr(-ii) ELSE NatRepr(ii)

\* int(digits) for a sequence of digits
RECURSIVE NatOfStr(_)
NatOfStr(ns) ==
    IF ns = <<>> THEN 0
    ELSE 10 * NatOfStr(SubSeq(ns, 1, Len(ns) - 1)) + DigitValue(ns[Len(ns)])

\* int(text)
IntOfStr(is) ==
    IF is[1] = "-" THEN -NatOfStr(Tail(is)) ELSE NatOfStr(is)

\* the number a bit sequence stands for
RECURSIVE BToNat(_)
BToNat(tb2) == IF tb2 = <<>> THEN 0 ELSE tb2[1] + 2 * BToNat(Tail(tb2))

\* the float nearest to dsgn * dn / 10^dk: float(text) of a decimal literal
DecimalToFloat(dsgn, dn, dk) ==
    IF dn = 0 THEN FZero
    ELSE Only({FRound(dsgn, dqr.q, -(2 * MantissaBits), dqr.r # 0) :
                 dqr \in {BDivSmall(BShl(BFromNat(dn), 2 * MantissaBits), Pow10(dk))}})

\* mb * 10^mk
RECURSIVE BMulPow10(_, _)
BMulPow10(mb, mk) ==
    IF mk = 0 THEN mb
    ELSE Only({BAdd(BShl(tenth, 3), BShl(tenth, 1)) : tenth \in {BMulPow10(mb, mk - 1)}})

\* the integer nearest to |sf| * 10^sk (ties to even), for |sf| < 2^MantissaBits
ScaledRound(sf, sk) ==
    IF sf.s = 0 THEN 0
    ELSE IF sf.e >= 0 THEN BToNat(BShl(BMulPow10(sf.m, sk), sf.e))
    ELSE Only({Only({ip + (IF /\ pp[-sf.e] = 1
                              /\ \/ ip % 2 = 1
                                 \/ \E si \in 1..(-sf.e - 1) : pp[si] = 1
                           THEN 1 ELSE 0) :
                        ip \in {BToNat(BNorm(SubSeq(pp, 1 - sf.e, Len(pp))))}}) :
                  pp \in {BPad(BMulPow10(sf.m, sk), Len(sf.m) + 32 - sf.e)}})

\* floats are printed with as few fraction digits as read back to the same
\* float; the model covers floats that need at most MaxFracDigits of them
MaxFracDigits == 3

\* slip: two fraction digits, as '%.2f' prints
ReprDigits_fixed(rf) == 2

\* the least number of fraction digits that reads back as rf
ReprDigits(rf) ==
    Only({IF exact = {} THEN MaxFracDigits
          ELSE CHOOSE rk \in exact : \A rj \in exact : rk <= rj :
             exact \in {{rk \in 0..MaxFracDigits :
                           DecimalToFloat(rf.s, ScaledRound(rf, rk), rk) = rf}}})

\* float.__repr__ (fixed notation)
FloatRepr(ff) ==
    Only({Only({(IF ff.s < 0 THEN <<"-">> ELSE <<>>)
                \o NatRepr(scaled \div Pow10(fk)) \o <<".">>
                \o (IF fk = 0 THEN <<"0">> ELSE ZeroPadded(scaled % Pow10(fk), fk)) :
                   scaled \in {ScaledRound(ff, fk)}}) :
             fk \in {ReprDigits(ff)}})

\* float(text) for a literal with a decimal point
FloatOfStr(fs) ==
    Only({DecimalToFloat(IF fs[1] = "-" THEN -1 ELSE 1,
                         NatOfStr(SelectSeq(body, LAMBDA bc : bc # ".")),
                         Len(body) - (CHOOSE bi \in 1..Len(body) : body[bi] = ".")) :
             body \in {IF fs[1] = "-" THEN Tail(fs) ELSE fs}})

Tok(tt) == [t |-> tt]
StrTok(ts) == [t |-> "str", s |-> ts]
NumTok(tc) == [t |-> "num", c |-> tc]

\* the concatenation of the sequences in parts, with sep between them
RECURSIVE JoinSeqs(_, _)
JoinSeqs(jparts, jsep) ==
    IF jparts = <<>> THEN <<>>
    ELSE IF Len(jparts) = 1 THEN jparts[1]
    ELSE jparts[1] \o jsep \o JoinSeqs(Tail(jparts), jsep)

\* json.dumps of an int or a float
JsonScalar(jv) ==
    IF jv.t = "int" THEN <<NumTok(IntRepr(jv.i))>> ELSE <<NumTok(FloatRepr(jv.f))>>

\* json.dumps of an int, a float or a list of them
JsonDumps(jv) ==
    IF jv.t = "list"
    THEN <<Tok("[")>>
         \o JoinSeqs([ji \in 1..Len(jv.l) |-> JsonScalar(jv.l[ji])], <<Tok(",")>>)
         \o <<Tok("]")>>
    ELSE JsonScalar(jv)

\* json.dumps of a dict with the keys in the order given
JsonDumpsDict(jd, jorder) ==
    Only({<<Tok("{")>>
          \o JoinSeqs([ji \in 1..Len(jkeys) |->
                          <<StrTok(jkeys[ji]), Tok(":")>> \o JsonDumps(jd[jkeys[ji]])],
                      <<Tok(",")>>)
          \o <<Tok("}")>> :
             jkeys \in {SelectSeq(jorder, LAMBDA jk : jk \in DOMAIN jd)}})

\* a number literal read back
JsonNumber(jn) ==
    IF \E ji \in 1..Len(jn.c) : jn.c[ji] = "." THEN PyFloat(FloatOfStr(jn.c))
    ELSE PyInt(IntOfStr(jn.c))

\* json.loads of the tokens of an int, a float or a list of them
JsonLoads(jt) ==
    IF jt[1].t = "[" 
    THEN PyList([ji \in 1..(Len(jt) \div 2) |-> JsonNumber(jt[2 * ji])])
    ELSE JsonNumber(jt[1])

\* json.loads of the tokens of a dict
JsonLoadsDict(jt) ==
    LET keyAt == {ji \in 1..Len(jt) : jt[ji].t = "str"}
        endOf(ji) == IF \E jj \in keyAt : jj > ji
                     THEN (CHOOSE jj \in keyAt : jj > ji /\ \A jl \in keyAt : jl > ji => jj <= jl) - 2
                     ELSE Len(jt) - 1
    IN  [jk \in {jt[ji].s : ji \in keyAt} |->
            JsonLoads(SubSeq(jt, (CHOOSE ji \in keyAt : jt[ji].s = jk) + 2,
                             endOf(CHOOSE ji \in keyAt : jt[ji].s = jk)))]

(***************************************************************************)
(* base64                                                                  *)
(***************************************************************************)
B64Alphabet ==
    <<"A", "B", "C", "D", "E", "F", "G", "H", "I", "J", "K", "L", "M", "N", "O", "P",
      "Q", "R", "S", "T", "U", "V", "W", "X", "Y", "Z", "a", "b", "c", "d", "e", "f",
      "g", "h", "i", "j", "k", "l", "m", "n", "o", "p", "q", "r", "s", "t", "u", "v",
      "w", "x", "y", "z", "0", "1", "2", "3", "4", "5", "6", "7", "8", "9", "+", "/">>

\* the byte at position bi, zero past the end
ByteAt(bs, bi) == IF bi <= Len(bs) THEN bs[bi] ELSE 0

\* base64.b64encode(bytes).decode('utf-8')
B64Encode(bs) ==
    [bj \in 1..(4 * ((Len(bs) + 2) \div 3)) |->
        LET g == (bj - 1) \div 4
            p == (bj - 1) % 4
            triple == ByteAt(bs, 3 * g + 1) * 65536 + ByteAt(bs, 3 * g + 2) * 256
                      + ByteAt(bs, 3 * g + 3)
        IN  IF 3 * g + p > Len(bs) THEN "="
            ELSE B64Alphabet[((triple \div (IF p = 0 THEN 262144 ELSE IF p = 1 THEN 4096
                                            ELSE IF p = 2 THEN 64 ELSE 1)) % 64) + 1]]

SextetOf(sc) == IF sc = "=" THEN 0 ELSE (CHOOSE si \in 1..64 : B64Alphabet[si] = sc) - 1

\* base64.b64decode(text.encode('utf-8'))
B64Decode(bt) ==
    LET pad == Cardinality({bi \in 1..Len(bt) : bt[bi] = "="})
    IN  [bj \in 1..(3 * (Len(bt) \div 4) - pad) |->
            LET g == (bj - 1) \div 3
                p == (bj - 1) % 3
                quad == SextetOf(bt[4 * g + 1]) * 262144 + SextetOf(bt[4 * g + 2]) * 4096
                        + SextetOf(bt[4 * g + 3]) * 64 + SextetOf(bt[4 * g + 4])
            IN  (quad \div (IF p = 0 THEN 65536 ELSE IF p = 1 THEN 256 ELSE 1)) % 256]

(***************************************************************************)
(* The network: its state dict has learnable parameters and buffers (the   *)
(* running statistics of the batch-norm layers).                           *)
(***************************************************************************)
ParamNames == {<<"w">>}
BufferNames == {<<"m">>}
NetNames == ParamNames \cup BufferNames

\* DenseNet(num_classes=K, drop_rate=drop_rate).state_dict()
DenseNet(num_classes, drop_rate) == [dn \in NetNames |-> Tensor(0)]

\* a forward pass in train mode updates the batch-norm running statistics
Forward(fnet) ==
    [fn \in DOMAIN fnet |->
        IF fn \in BufferNames THEN Tensor(fnet[fn].v + 1) ELSE fnet[fn]]

\* optimizer.zero_grad(); loss.backward(); optimizer.step()
OptimizerStep(onet) ==
    [on \in DOMAIN onet |->
        IF on \in ParamNames THEN Tensor(onet[on].v + 1) ELSE onet[on]]

\* net.load_state_dict(state_dict, strict): entries with a known name are
\* copied; with strict, a missing or unexpected name is an error.
LoadStateDict(lnet, state_dict, strict) ==
    LET missing == DOMAIN lnet \ DOMAIN state_dict
        unexpected == DOMAIN state_dict \ DOMAIN lnet
    IN  [net |-> [ln \in DOMAIN lnet |->
                    IF ln \in DOMAIN state_dict THEN state_dict[ln] ELSE lnet[ln]],
         err |-> IF strict /\ (missing # {} \/ unexpected # {})
                 THEN "RuntimeError" ELSE "none"]

NoAttr == [set |-> FALSE]

(***************************************************************************)
(* PyDenseNetBc                                                            *)
(***************************************************************************)
\* get_trial_config: the keyword arguments the TrialConfig is made of
NumFinalTrials == 10

\* slip: the final trials keep their train-val split
GetTrialConfig_keepsplit(trial_no, total_trials) ==
    IF (total_trials - trial_no) < NumFinalTrials
    THEN [override_knobs |-> [max_trial_epochs |-> 300],
          shared_params |-> "NONE"]
    ELSE [shared_params |-> "LOCAL_BEST", should_save |-> FALSE]

GetTrialConfig(trial_no, total_trials) ==
    IF (total_trials - trial_no) < NumFinalTrials
    THEN [override_knobs |-> [max_trial_epochs |-> 300, max_train_val_samples |-> 0],
          shared_params |-> "NONE"]
    ELSE [shared_params |-> "LOCAL_BEST", should_save |-> FALSE]

\* _build_model
BuildModel(kn, tp) ==
    IF "K" \notin DOMAIN tp.d
    THEN [model |-> NoAttr, err |-> "KeyError"]
    ELSE [model |-> [set |-> TRUE, net |-> DenseNet(tp.d["K"], kn.drop_rate),
                     step |-> 0],
          err |-> "none"]

\* get_shared_parameters
GetSharedParameters(kn, gm) ==
    IF ~kn.if_share_params THEN [none |-> TRUE]
    ELSE [none |-> FALSE,
          params |->
            [gk \in {FormatKey(NetPrefix, gn) : gn \in DOMAIN gm.net} \cup {StepKey} |->
                IF gk = StepKey THEN AsArray(gm.step)
                ELSE ToNumpy(gm.net[CHOOSE gn \in DOMAIN gm.net :
                                        FormatKey(NetPrefix, gn) = gk])]]

\* slip: only the piece after the first ':' is taken as the name
ExtractParams_second(params, prefix) ==
    LET keys == {ek \in DOMAIN params : StartsWith(ek, prefix \o <<":">>)}
        nameOf(ek) == Split(ek, ":")[2]
    IN  [en \in {nameOf(ek) : ek \in keys} |->
            FromNumpy(params[CHOOSE ek \in keys : nameOf(ek) = en])]

\* extract_params(prefix) of _load_shared_parameters
ExtractParams(params, prefix) ==
    LET keys == {ek \in DOMAIN params : StartsWith(ek, prefix \o <<":">>)}
        nameOf(ek) == Join(Tail(Split(ek, ":")), ":")
    IN  [en \in {nameOf(ek) : ek \in keys} |->
            FromNumpy(params[CHOOSE ek \in keys : nameOf(ek) = en])]

\* slip: the state dict is loaded strictly
LoadSharedParameters_strict(sm, params) ==
    IF DOMAIN params = {} THEN [model |-> sm, err |-> "none"]
    ELSE LET lsd == LoadStateDict(sm.net, ExtractParams(params, NetPrefix), TRUE)
         IN  IF lsd.err # "none"
             THEN [model |-> [sm EXCEPT !.net = lsd.net], err |-> lsd.err]
             ELSE IF StepKey \notin DOMAIN params
             THEN [model |-> [sm EXCEPT !.net = lsd.net], err |-> "KeyError"]
             ELSE [model |-> [set |-> TRUE, net |-> lsd.net,
                              step |-> IntOf(params[StepKey])],
                   err |-> "none"]

\* slip: the step carried by the shared parameters is dropped
LoadSharedParameters_nostep(sm, params) ==
    IF DOMAIN params = {} THEN [model |-> sm, err |-> "none"]
    ELSE LET lsd == LoadStateDict(sm.net, ExtractParams(params, NetPrefix), FALSE)
         IN  IF StepKey \notin DOMAIN params
             THEN [model |-> [sm EXCEPT !.net = lsd.net], err |-> "KeyError"]
             ELSE [model |-> [set |-> TRUE, net |-> lsd.net, step |-> sm.step],
                   err |-> "none"]

\* _load_shared_parameters: the model afterwards and the exception raised
LoadSharedParameters(sm, params) ==
    IF DOMAIN params = {} THEN [model |-> sm, err |-> "none"]
    ELSE LET lsd == LoadStateDict(sm.net, ExtractParams(params, NetPrefix), FALSE)
         IN  IF StepKey \notin DOMAIN params
             THEN [model |-> [sm EXCEPT !.net = lsd.net], err |-> "KeyError"]
             ELSE [model |-> [set |-> TRUE, net |-> lsd.net,
                              step |-> IntOf(params[StepKey])],
                   err |-> "none"]

\* slip: the train part keeps the samples of the train-val part
LoadTrainDataset_all(kn, ds) ==
    LET images == [si \in 1..ds.size |-> si]
        train_val_samples == Min2(ds.size \div 5, kn.max_train_val_samples)
    IN  [train |-> images,
         train_val |-> SubSeq(images, 1, train_val_samples),
         params |-> [set |-> TRUE,
                     d |-> [norm_mean |-> FloatList(ds.mean),
                            norm_std |-> FloatList(ds.std),
                            image_size |-> PyInt(ds.image_size),
                            N |-> PyInt(ds.size),
                            K |-> PyInt(ds.classes)]]]

\* _load_train_dataset: up to 1/5 of the samples go to the train-val part
LoadTrainDataset(kn, ds) ==
    LET images == [si \in 1..ds.size |-> si]
        train_val_samples == Min2(ds.size \div 5, kn.max_train_val_samples)
    IN  [train |-> SubSeq(images, train_val_samples + 1, ds.size),
         train_val |-> SubSeq(images, 1, train_val_samples),
         params |-> [set |-> TRUE,
                     d |-> [norm_mean |-> FloatList(ds.mean),
                            norm_std |-> FloatList(ds.std),
                            image_size |-> PyInt(ds.image_size),
                            N |-> PyInt(ds.size),
                            K |-> PyInt(ds.classes)]]]

\* len(DataLoader(dataset, batch_size))
NumBatches(dset, batch_size) == (Len(dset) + batch_size - 1) \div batch_size

\* the loop position after an epoch that was not stopped
AfterEpoch(ep, trial_epochs) ==
    [pc |-> IF ep + 1 < trial_epochs THEN "epoch" ELSE "finish", epoch |-> ep + 1]

\* slip: the stop signal does not break the loop
AfterCheck_nobreak(ret, ep, trial_epochs) == AfterEpoch(ep, trial_epochs)

\* the loop position after the early-stop check returned ret
AfterCheck(ret, ep, trial_epochs) ==
    IF ret THEN [pc |-> "finish", epoch |-> ep] ELSE AfterEpoch(ep, trial_epochs)

(***************************************************************************)
(* PyDenseNetBc: export, import and evaluation of a model instance         *)
(* [knobs, train_params, model]; an attribute that was never assigned is   *)
(* NoAttr.                                                                 *)
(***************************************************************************)
\* the keys of train_params in the order _load_train_dataset inserts them
TrainParamKeys == <<"norm_mean", "norm_std", "image_size", "N", "K">>

\* PyDenseNetBc(**knobs)
PyNew(kn) == [knobs |-> kn, train_params |-> NoAttr, model |-> NoAttr]

\* the elements of a set, one after the other
OrderOf(oset) ==
    CHOOSE oq \in [1..Cardinality(oset) -> oset] :
        \A oi, oj \in 1..Cardinality(oset) : oi # oj => oq[oi] # oq[oj]

\* torch.save(state_dict, path): the content of the file
TorchSave(state_dict) ==
    [format |-> "torch",
     entries |-> [ti \in 1..Cardinality(DOMAIN state_dict) |->
                    [name |-> OrderOf(DOMAIN state_dict)[ti],
                     data |-> state_dict[OrderOf(DOMAIN state_dict)[ti]].v]]]

\* torch.load(path)
TorchLoad(tfile) ==
    [tn \in {tfile.entries[ti].name : ti \in 1..Len(tfile.entries)} |->
        Tensor(tfile.entries[CHOOSE ti \in 1..Len(tfile.entries) :
                                tfile.entries[ti].name = tn].data)]

\* save_parameters: the files written to params_dir
SaveParameters(sinst) ==
    [sf \in {"model.pt", "train_params.json"} |->
        IF sf = "model.pt" THEN TorchSave(sinst.model.net)
        ELSE JsonDumpsDict(sinst.train_params.d, TrainParamKeys)]

\* slip: the state dict is loaded with strict=False
ApplyStateDict_lenient(anet, asd) == LoadStateDict(anet, asd, FALSE)

\* self._model.net.load_state_dict(net_state_dict)
ApplyStateDict(anet, asd) == LoadStateDict(anet, asd, TRUE)

\* load_parameters: the instance afterwards and the exception raised
LoadParameters(linst, ldir) ==
    IF "train_params.json" \notin DOMAIN ldir
    THEN [inst |-> linst, err |-> "FileNotFoundError"]
    ELSE LET tp == [set |-> TRUE, d |-> JsonLoadsDict(ldir["train_params.json"])]
             withTp == [linst EXCEPT !.train_params = tp]
             built == BuildModel(linst.knobs, tp)
         IN  IF "model.pt" \notin DOMAIN ldir
             THEN [inst |-> withTp, err |-> "FileNotFoundError"]
             ELSE IF built.err # "none"
             THEN [inst |-> withTp, err |-> built.err]
             ELSE LET applied == ApplyStateDict(built.model.net, TorchLoad(ldir["model.pt"]))
                  IN  [inst |-> [withTp EXCEPT
                                    !.model = [built.model EXCEPT !.net = applied.net]],
                       err |-> applied.err]

\* evaluate: the exception raised, or the accuracy returned
Evaluate(einst) ==
    IF ~einst.train_params.set THEN [err |-> "AttributeError", ret |-> "none"]
    ELSE IF {"image_size", "norm_mean", "norm_std"} \ DOMAIN einst.train_params.d # {}
    THEN [err |-> "KeyError", ret |-> "none"]
    ELSE IF ~einst.model.set THEN [err |-> "AttributeError", ret |-> "none"]
    ELSE [err |-> "none", ret |-> "accuracy"]

(***************************************************************************)
(* TfVgg16: an instance is [knobs, image_size, normalize_mean,             *)
(* normalize_std, model], each attribute NoAttr or [set, v]. The Keras     *)
(* model is [num_classes, image_size, weights]; its h5 file is the HDF5    *)
(* signature followed by the bytes of these.                               *)
(***************************************************************************)
Attr(av) == [set |-> TRUE, v |-> av]

H5Signature == <<137, 72, 68, 70>>

\* self._model.save(path): the bytes of the file
H5Save(km) == H5Signature \o <<km.num_classes, km.image_size>> \o km.weights

\* keras.models.load_model(path)
H5Load(hb) ==
    IF Len(hb) < Len(H5Signature) + 2 \/ SubSeq(hb, 1, Len(H5Signature)) # H5Signature
    THEN [err |-> "OSError"]
    ELSE [err |-> "none",
          model |-> [num_classes |-> hb[Len(H5Signature) + 1],
                     image_size |-> hb[Len(H5Signature) + 2],
                     weights |-> SubSeq(hb, Len(H5Signature) + 3, Len(hb))]]

\* TfVgg16(**knobs)
TfNew(kn) ==
    [knobs |-> kn, image_size |-> NoAttr, normalize_mean |-> NoAttr,
     normalize_std |-> NoAttr, model |-> NoAttr]

\* train: the attributes it sets; fitted are the weights fit arrives at
TfTrain(tinst, ds, fitted) ==
    [tinst EXCEPT !.image_size = Attr(ds.image_size),
                  !.normalize_mean = Attr(ds.mean),
                  !.normalize_std = Attr(ds.std),
                  !.model = Attr([num_classes |-> ds.classes,
                                  image_size |-> ds.image_size,
                                  weights |-> fitted])]

\* dump_parameters
TfDumpParameters(dinst) ==
    [dk \in {"h5_model_base64", "image_size", "normalize_mean", "normalize_std"} |->
        IF dk = "h5_model_base64" THEN B64Encode(H5Save(dinst.model.v))
        ELSE IF dk = "image_size" THEN dinst.image_size.v
        ELSE IF dk = "normalize_mean" THEN JsonDumps(FloatList(dinst.normalize_mean.v))
        ELSE JsonDumps(FloatList(dinst.normalize_std.v))]

\* the floats of a list json.loads returned
FloatsOf(pl) == [fi \in 1..Len(pl.l) |-> pl.l[fi].f]

\* load_parameters: the instance afterwards and the exception raised
TfLoadParameters(linst, lparams) ==
    IF "h5_model_base64" \notin DOMAIN lparams
    THEN [inst |-> linst, err |-> "KeyError"]
    ELSE LET h5 == H5Load(B64Decode(lparams["h5_model_base64"]))
             withModel == [linst EXCEPT !.model = Attr(h5.model)]
             withSize == [withModel EXCEPT !.image_size = Attr(lparams["image_size"])]
             withMean == [withSize EXCEPT !.normalize_mean =
                             Attr(FloatsOf(JsonLoads(lparams["normalize_mean"])))]
         IN  IF h5.err # "none" THEN [inst |-> linst, err |-> h5.err]
             ELSE IF "image_size" \notin DOMAIN lparams
             THEN [inst |-> withModel, err |-> "KeyError"]
             ELSE IF "normalize_mean" \notin DOMAIN lparams
             THEN [inst |-> withSize, err |-> "KeyError"]
             ELSE IF "normalize_std" \notin DOMAIN lparams
             THEN [inst |-> withMean, err |-> "KeyError"]
             ELSE [inst |-> [withMean EXCEPT !.normalize_std =
                                Attr(FloatsOf(JsonLoads(lparams["normalize_std"])))],
                   err |-> "none"]

\* evaluate: the exception raised, or the accuracy returned
TfEvaluate(einst) ==
    IF ~einst.normalize_mean.set \/ ~einst.normalize_std.set \/ ~einst.model.set
    THEN [err |-> "AttributeError", ret |-> "none"]
    ELSE [err |-> "none", ret |-> "accuracy"]

\* bounds of the training runs explored
MaxTrialEpochs == 3
LossSpan == 2
MaxSharedStep == 3
DatasetSizes == {3, 15}
TrainPatiences == (-1)..MaxPatience
TrainLosses == {FromInt(LossSpan)}
ValLosses == {FromInt(i) : i \in 1..LossSpan}

KnobChoices ==
    [max_trial_epochs : 1..MaxTrialEpochs,
     batch_size : {2},
     early_stop_patience_epochs : TrainPatiences,
     max_train_val_samples : {0, 1024},
     drop_rate : {0},
     if_share_params : {TRUE}]

\* per-channel mean and standard deviation of the pixels of a dataset
DatasetStats(n) ==
    IF n < 10
    THEN [mean |-> <<DecimalToFloat(1, 5, 1), DecimalToFloat(1, 1, 1),
                     DecimalToFloat(1, 449, 3)>>,
          std |-> <<DecimalToFloat(1, 25, 2), DecimalToFloat(1, 2, 1),
                    DecimalToFloat(1, 125, 3)>>]
    ELSE [mean |-> <<DecimalToFloat(1, 485, 3), DecimalToFloat(1, 456, 3),
                     DecimalToFloat(1, 406, 3)>>,
          std |-> <<DecimalToFloat(1, 229, 3), DecimalToFloat(1, 224, 3),
                    DecimalToFloat(1, 225, 3)>>]

Datasets ==
    {[size |-> n, classes |-> 10, image_size |-> 32,
      mean |-> DatasetStats(n).mean, std |-> DatasetStats(n).std] : n \in DatasetSizes}

\* what get_shared_parameters of a network with the names ns would export
SharedFrom(ns, sv, st) ==
    GetSharedParameters([if_share_params |-> TRUE],
                        [net |-> [sn \in ns |-> Tensor(sv)], step |-> st]).params

\* parameter names of networks of other trials: the same names, one
\* missing, one extra, one renamed
SharedNameSets ==
    {NetNames, {<<"w">>}, NetNames \cup {<<"x">>}, {<<"w">>, <<"m", ":", "2">>}}

\* shared_params as the tuning platform passes them: nothing, or the export
\* of an earlier trial
SharedInputs ==
    {EmptyDict} \cup {SharedFrom(ns, 7, MaxSharedStep) : ns \in SharedNameSets}

\* nothing exported or imported
NoParams ==
    /\ params_dir = <<>>
    /\ loaded = NoAttr
    /\ tf = NoAttr
    /\ tf_loaded = NoAttr
    /\ tf_params = <<>>
    /\ arg = <<>>
    /\ last = [cls |-> "none", op |-> "none", err |-> "none", ret |-> "none"]

NoInstance ==
    /\ NoParams
    /\ knobs = NoAttr
    /\ train_params = NoAttr
    /\ model = NoAttr
    /\ err = "none"
    /\ pc = "idle"
    /\ epoch = 0
    /\ step = 0
    /\ tb = 0
    /\ vb = 0
    /\ train_loss = RA_init
    /\ train_val_loss = RA_init
    /\ train_dataset = <<>>
    /\ train_val_dataset = <<>>
    /\ opt_steps = 0
    /\ val_seen = 0
    /\ shared_in = EmptyDict

(***************************************************************************)
(* RunningAverage driven by any sequence of add calls.                     *)
(***************************************************************************)
InitRA ==
    /\ ra = RA_init
    /\ ra_hist = <<>>
    /\ esc = ESC_init(-1, FALSE)
    /\ esc_log = <<>>
    /\ NoInstance

RAAdd(v) ==
    /\ Len(ra_hist) < MaxAdds
    /\ ra' = RA_add(ra, FromInt(v))
    /\ ra_hist' = Append(ra_hist, v)
    /\ UNCHANGED <<paramVars, escVars, loopVars, pyVars>>

NextRA == \E v \in RAValues : RAAdd(v)

SpecRA == InitRA /\ [][NextRA]_vars

(***************************************************************************)
(* EarlyStopCondition driven by any sequence of check calls.               *)
(***************************************************************************)
InitESC ==
    /\ ra = RA_init
    /\ ra_hist = <<>>
    /\ \E p \in Patiences, m \in BOOLEAN : esc = ESC_init(p, m)
    /\ esc_log = <<>>
    /\ NoInstance

ESCCheck(v) ==
    /\ Len(esc_log) < MaxChecks
    /\ LET res == ESC_check(esc, v)
       IN  /\ esc' = res.esc
           /\ esc_log' = Append(esc_log, ESC_entry(res, v))
    /\ UNCHANGED <<paramVars, raVars, loopVars, pyVars>>

NextESC == \E v \in ESCValues : ESCCheck(v)

SpecESC == InitESC /\ [][NextESC]_vars

(***************************************************************************)
(* PyDenseNetBc.train: one call, stepped through the loop of _train_model. *)
(* The learning-rate schedule, the accuracy averages and the logger only   *)
(* feed the log and are left out.                                          *)
(***************************************************************************)
InitTrain ==
    /\ ra = RA_init
    /\ ra_hist = <<>>
    /\ esc = ESC_init(-1, FALSE)
    /\ esc_log = <<>>
    /\ knobs \in KnobChoices
    /\ train_params = NoAttr
    /\ model = NoAttr
    /\ err = "none"
    /\ pc = "new"
    /\ epoch = 0
    /\ step = 0
    /\ tb = 0
    /\ vb = 0
    /\ train_loss = RA_init
    /\ train_val_loss = RA_init
    /\ train_dataset = <<>>
    /\ train_val_dataset = <<>>
    /\ opt_steps = 0
    /\ val_seen = 0
    /\ NoParams
    /\ shared_in = EmptyDict

\* train up to the first epoch: _load_train_dataset, _build_model,
\* _load_shared_parameters and the set-up of _train_model
TrainStart(ds, sp) ==
    /\ pc = "new"
    /\ LET ld == LoadTrainDataset(knobs, ds)
           built == BuildModel(knobs, ld.params)
           sh == LoadSharedParameters(built.model, sp)
       IN  /\ train_params' = ld.params
           /\ train_dataset' = ld.train
           /\ train_val_dataset' = ld.train_val
           /\ model' = sh.model
           /\ err' = sh.err
           /\ step' = sh.model.step
           /\ pc' = IF sh.err # "none" THEN "error"
                    ELSE IF knobs.max_trial_epochs > 0 THEN "epoch" ELSE "finish"
    /\ shared_in' = sp
    /\ esc' = ESC_init(knobs.early_stop_patience_epochs, FALSE)
    /\ esc_log' = <<>>
    /\ epoch' = 0
    /\ UNCHANGED <<paramVars, raVars, knobs, tb, vb, train_loss, train_val_loss,
                   opt_steps, val_seen>>

\* top of the epoch loop: scheduler.step() and fresh averages
EpochStart ==
    /\ pc = "epoch"
    /\ pc' = "train"
    /\ train_loss' = RA_init
    /\ tb' = 0
    /\ UNCHANGED <<paramVars, raVars, escVars, pyVars, epoch, step, vb, train_val_loss,
                   train_dataset, train_val_dataset, opt_steps, val_seen, shared_in>>

\* one batch of the train data loader
TrainBatch(loss) ==
    /\ pc = "train"
    /\ tb < NumBatches(train_dataset, knobs.batch_size)
    /\ model' = [model EXCEPT !.net = OptimizerStep(Forward(model.net))]
    /\ step' = step + 1
    /\ opt_steps' = opt_steps + 1
    /\ train_loss' = RA_add(train_loss, loss)
    /\ tb' = tb + 1
    /\ UNCHANGED <<paramVars, raVars, escVars, knobs, train_params, err, pc, epoch, vb,
                   train_val_loss, train_dataset, train_val_dataset, val_seen,
                   shared_in>>

\* slip: the train-val pass and the early-stop check run even when the
\* train-val dataset is empty
TrainPassEnd_unguarded ==
    /\ pc = "train"
    /\ tb = NumBatches(train_dataset, knobs.batch_size)
    /\ pc' = "val"
    /\ train_val_loss' = RA_init
    /\ vb' = 0
    /\ UNCHANGED <<paramVars, raVars, escVars, pyVars, epoch, step, tb, train_loss,
                   train_dataset, train_val_dataset, opt_steps, val_seen, shared_in>>

\* the train data loader is exhausted: go on with the train-val data, if any
TrainPassEnd ==
    /\ pc = "train"
    /\ tb = NumBatches(train_dataset, knobs.batch_size)
    /\ IF Len(train_val_dataset) > 0
       THEN /\ pc' = "val"
            /\ train_val_loss' = RA_init
            /\ vb' = 0
            /\ UNCHANGED epoch
       ELSE /\ pc' = AfterEpoch(epoch, knobs.max_trial_epochs).pc
            /\ epoch' = AfterEpoch(epoch, knobs.max_trial_epochs).epoch
            /\ UNCHANGED <<train_val_loss, vb>>
    /\ UNCHANGED <<paramVars, raVars, escVars, pyVars, step, tb, train_loss,
                   train_dataset, train_val_dataset, opt_steps, val_seen, shared_in>>

\* one batch of the train-val data loader (the network stays in train mode)
ValBatch(loss) ==
    /\ pc = "val"
    /\ vb < NumBatches(train_val_dataset, knobs.batch_size)
    /\ model' = [model EXCEPT !.net = Forward(model.net)]
    /\ train_val_loss' = RA_add(train_val_loss, loss)
    /\ vb' = vb + 1
    /\ val_seen' = val_seen + 1
    /\ UNCHANGED <<paramVars, raVars, escVars, knobs, train_params, err, pc, epoch, step, tb,
                   train_loss, train_dataset, train_val_dataset, opt_steps,
                   shared_in>>

\* early stop on the average train-val batch loss
EarlyStopCheck ==
    /\ pc = "val"
    /\ vb = NumBatches(train_val_dataset, knobs.batch_size)
    /\ LET res == ESC_check(esc, RA_get(train_val_loss))
           nxt == AfterCheck(res.ret, epoch, knobs.max_trial_epochs)
       IN  /\ esc' = res.esc
           /\ esc_log' = Append(esc_log, ESC_entry(res, RA_get(train_val_loss)))
           /\ pc' = nxt.pc
           /\ epoch' = nxt.epoch
    /\ UNCHANGED <<paramVars, raVars, pyVars, step, tb, vb, train_loss, train_val_loss,
                   train_dataset, train_val_dataset, opt_steps, val_seen, shared_in>>

\* after the loop: self._model = _Model(net, step)
Finish ==
    /\ pc = "finish"
    /\ model' = [model EXCEPT !.step = step]
    /\ pc' = "done"
    /\ UNCHANGED <<paramVars, raVars, escVars, knobs, train_params, err, epoch, step, tb, vb,
                   train_loss, train_val_loss, train_dataset, train_val_dataset,
                   opt_steps, val_seen, shared_in>>

NextTrain ==
    \/ \E ds \in Datasets, sp \in SharedInputs : TrainStart(ds, sp)
    \/ EpochStart
    \/ \E loss \in TrainLosses : TrainBatch(loss)
    \/ TrainPassEnd
    \/ \E loss \in ValLosses : ValBatch(loss)
    \/ EarlyStopCheck
    \/ Finish

SpecTrain == InitTrain /\ [][NextTrain]_vars

\* the interpreter runs the call to its end
SpecTrainFair == SpecTrain /\ WF_vars(NextTrain)

(***************************************************************************)
(* Export and import. Either a PyDenseNetBc instance is trained (by the    *)
(* loop above), saves its parameters, and a second instance of the same    *)
(* knobs loads a parameter directory and is evaluated; or the same with    *)
(* two TfVgg16 instances and the dictionary of dump_parameters.            *)
(***************************************************************************)
ParamKnobChoices ==
    [max_trial_epochs : {2},
     batch_size : {2},
     early_stop_patience_epochs : {1},
     max_train_val_samples : {1024},
     drop_rate : {0},
     if_share_params : {TRUE}]

TfKnobs == [max_epochs |-> 10, learning_rate |-> 1, batch_size |-> 16,
            max_image_size |-> 32]

\* weights a fit may arrive at
KerasWeights == {<<1, 2>>, <<200, 7, 31>>}

\* a dict without the key dk
Without(wd, wk) == [wj \in DOMAIN wd \ {wk} |-> wd[wj]]

\* train_params.json as a release without the key wk wrote it
JsonWithout(wdir, wk) ==
    [wdir EXCEPT !["train_params.json"] =
        JsonDumpsDict(Without(JsonLoadsDict(wdir["train_params.json"]), wk),
                      TrainParamKeys)]

\* model.pt as a network with the parameter names wnames wrote it
StateDictOf(wdir, wnames) ==
    [wdir EXCEPT !["model.pt"] = TorchSave([wn \in wnames |-> Tensor(5)])]

\* the directories load_parameters is called with: the one just saved, one
\* with a file missing, and ones another release of the model wrote
ParamDirs(pdir) ==
    {pdir, Without(pdir, "train_params.json"), Without(pdir, "model.pt"),
     JsonWithout(pdir, "image_size"), JsonWithout(pdir, "K"),
     StateDictOf(pdir, {<<"w">>}), StateDictOf(pdir, NetNames \cup {<<"x">>})}

\* the dictionaries TfVgg16.load_parameters is called with
TfParamDicts(pd) == {pd} \cup {Without(pd, pk) : pk \in DOMAIN pd}

Call(ccls, cop, cerr, cret) == [cls |-> ccls, op |-> cop, err |-> cerr, ret |-> cret]

InitParams ==
    /\ ra = RA_init
    /\ ra_hist = <<>>
    /\ esc = ESC_init(-1, FALSE)
    /\ esc_log = <<>>
    /\ knobs \in ParamKnobChoices
    /\ train_params = NoAttr
    /\ model = NoAttr
    /\ err = "none"
    /\ pc \in {"new", "tf_new"}
    /\ epoch = 0
    /\ step = 0
    /\ tb = 0
    /\ vb = 0
    /\ train_loss = RA_init
    /\ train_val_loss = RA_init
    /\ train_dataset = <<>>
    /\ train_val_dataset = <<>>
    /\ opt_steps = 0
    /\ val_seen = 0
    /\ shared_in = EmptyDict
    /\ params_dir = <<>>
    /\ loaded = PyNew(knobs)
    /\ tf = TfNew(TfKnobs)
    /\ tf_loaded = TfNew(TfKnobs)
    /\ tf_params = <<>>
    /\ arg = <<>>
    /\ last = Call("none", "none", "none", "none")

\* save_parameters(params_dir) on the trained instance
SaveParametersCall ==
    /\ pc = "done"
    /\ params_dir' = SaveParameters([knobs |-> knobs, train_params |-> train_params,
                                     model |-> model])
    /\ last' = Call("py", "save_parameters", "none", "none")
    /\ pc' = "saved"
    /\ UNCHANGED <<raVars, escVars, pyVars, epoch, step, tb, vb, train_loss,
                   train_val_loss, train_dataset, train_val_dataset, opt_steps,
                   val_seen, shared_in, loaded, tf, tf_loaded, tf_params, arg>>

\* load_parameters(d) on the second instance
LoadParametersCall ==
    /\ pc = "saved"
    /\ \E d \in ParamDirs(params_dir) :
          LET res == LoadParameters(loaded, d)
          IN  /\ loaded' = res.inst
              /\ last' = Call("py", "load_parameters", res.err, "none")
              /\ arg' = d
    /\ pc' = "imported"
    /\ UNCHANGED <<raVars, escVars, pyVars, epoch, step, tb, vb, train_loss,
                   train_val_loss, train_dataset, train_val_dataset, opt_steps,
                   val_seen, shared_in, params_dir, tf, tf_loaded, tf_params>>

\* evaluate(dataset_uri) on the second instance
EvaluateCall ==
    /\ pc \in {"saved", "imported"}
    /\ LET res == Evaluate(loaded)
       IN  last' = Call("py", "evaluate", res.err, res.ret)
    /\ UNCHANGED <<raVars, escVars, loopVars, pyVars, params_dir, loaded, tf,
                   tf_loaded, tf_params, arg>>

\* TfVgg16.train(dataset_path)
TfTrainCall(ds, fitted) ==
    /\ pc = "tf_new"
    /\ tf' = TfTrain(tf, ds, fitted)
    /\ last' = Call("tf", "train", "none", "none")
    /\ pc' = "tf_trained"
    /\ UNCHANGED <<raVars, escVars, pyVars, epoch, step, tb, vb, train_loss,
                   train_val_loss, train_dataset, train_val_dataset, opt_steps,
                   val_seen, shared_in, params_dir, loaded, tf_loaded, tf_params, arg>>

\* TfVgg16.dump_parameters()
TfDumpCall ==
    /\ pc = "tf_trained"
    /\ tf_params' = TfDumpParameters(tf)
    /\ last' = Call("tf", "dump_parameters", "none", "none")
    /\ pc' = "tf_dumped"
    /\ UNCHANGED <<raVars, escVars, pyVars, epoch, step, tb, vb, train_loss,
                   train_val_loss, train_dataset, train_val_dataset, opt_steps,
                   val_seen, shared_in, params_dir, loaded, tf, tf_loaded, arg>>

\* TfVgg16.load_parameters(p) on the second instance
TfLoadCall ==
    /\ pc = "tf_dumped"
    /\ \E p \in TfParamDicts(tf_params) :
          LET res == TfLoadParameters(tf_loaded, p)
          IN  /\ tf_loaded' = res.inst
              /\ last' = Call("tf", "load_parameters", res.err, "none")
              /\ arg' = p
    /\ pc' = "tf_imported"
    /\ UNCHANGED <<raVars, escVars, pyVars, epoch, step, tb, vb, train_loss,
                   train_val_loss, train_dataset, train_val_dataset, opt_steps,
                   val_seen, shared_in, params_dir, loaded, tf, tf_params>>

\* TfVgg16.evaluate(dataset_path) on the second instance
TfEvaluateCall ==
    /\ pc \in {"tf_dumped", "tf_imported"}
    /\ LET res == TfEvaluate(tf_loaded)
       IN  last' = Call("tf", "evaluate", res.err, res.ret)
    /\ UNCHANGED <<raVars, escVars, loopVars, pyVars, params_dir, loaded, tf,
                   tf_loaded, tf_params, arg>>

NextParams ==
    \/ NextTrain
    \/ SaveParametersCall
    \/ LoadParametersCall
    \/ EvaluateCall
    \/ \E ds \in Datasets, fitted \in KerasWeights : TfTrainCall(ds, fitted)
    \/ TfDumpCall
    \/ TfLoadCall
    \/ TfEvaluateCall

SpecParams == InitParams /\ [][NextParams]_vars

(***************************************************************************)
(* A trial of the tuning platform: it asks get_trial_config for the trial's *)
(* configuration, makes the instance with the proposed knobs updated by the *)
(* overrides, and calls train with the shared parameters the configuration  *)
(* asks for.                                                                *)
(***************************************************************************)
MaxTrialNo == 2
TrialNos == 0..MaxTrialNo
TotalTrials == {NumFinalTrials + 1}

\* the knobs of a trial: the proposed knobs updated with override_knobs
Override(kn, cfg) ==
    IF "override_knobs" \notin DOMAIN cfg THEN kn
    ELSE [ok \in DOMAIN kn |->
            IF ok \in DOMAIN cfg.override_knobs THEN cfg.override_knobs[ok] ELSE kn[ok]]

\* the shared parameters passed to train
SharedParamsFor(cfg) ==
    IF cfg.shared_params = "NONE" THEN {EmptyDict} ELSE SharedInputs

InitTrial ==
    /\ ra = RA_init
    /\ ra_hist = <<>>
    /\ esc = ESC_init(-1, FALSE)
    /\ esc_log = <<>>
    /\ knobs \in ParamKnobChoices
    /\ train_params = NoAttr
    /\ model = NoAttr
    /\ err = "none"
    /\ pc = "trial"
    /\ epoch = 0
    /\ step = 0
    /\ tb = 0
    /\ vb = 0
    /\ train_loss = RA_init
    /\ train_val_loss = RA_init
    /\ train_dataset = <<>>
    /\ train_val_dataset = <<>>
    /\ opt_steps = 0
    /\ val_seen = 0
    /\ NoParams
    /\ shared_in = EmptyDict

\* get_trial_config(trial_no, total_trials, ...) and PyDenseNetBc(**knobs)
GetTrialConfigCall(trial_no, total_trials) ==
    /\ pc = "trial"
    /\ LET cfg == GetTrialConfig(trial_no, total_trials)
       IN  /\ last' = Call("py", "get_trial_config", "none", cfg)
           /\ knobs' = Override(knobs, cfg)
    /\ arg' = <<trial_no, total_trials>>
    /\ pc' = "new"
    /\ UNCHANGED <<raVars, escVars, train_params, model, err, epoch, step, tb, vb,
                   train_loss, train_val_loss, train_dataset, train_val_dataset,
                   opt_steps, val_seen, shared_in, params_dir, loaded, tf,
                   tf_loaded, tf_params>>

\* train(dataset_uri, shared_params) of the trial
TrialTrain(ds) ==
    /\ pc = "new"
    /\ \E sp \in SharedParamsFor(last.ret) : TrainStart(ds, sp)

NextTrial ==
    \/ \E tn \in TrialNos, tt \in TotalTrials : GetTrialConfigCall(tn, tt)
    \/ \E ds \in Datasets : TrialTrain(ds)
    \/ EpochStart
    \/ \E loss \in TrainLosses : TrainBatch(loss)
    \/ TrainPassEnd
    \/ \E loss \in ValLosses : ValBatch(loss)
    \/ EarlyStopCheck
    \/ Finish

SpecTrial == InitTrial /\ [][NextTrial]_vars

(***************************************************************************)
(* A chain of trials: each trial is a fresh instance that trains and then   *)
(* exports its shared parameters; the next trial loads them.                *)
(***************************************************************************)
MaxChainStep == 8

ChainKnobChoices ==
    [max_trial_epochs : {1, 2},
     batch_size : {2},
     early_stop_patience_epochs : {1},
     max_train_val_samples : {1024},
     drop_rate : {0},
     if_share_params : BOOLEAN]

\* shared_params of a trial: the export of the trial before it; for the
\* first trial nothing or the export of an earlier chain
ChainShared ==
    IF last.op = "get_shared_parameters" THEN {last.ret.params}
    ELSE {EmptyDict, SharedFrom(NetNames, 7, MaxSharedStep)}

InitChain ==
    /\ ra = RA_init
    /\ ra_hist = <<>>
    /\ esc = ESC_init(-1, FALSE)
    /\ esc_log = <<>>
    /\ knobs \in ChainKnobChoices
    /\ train_params = NoAttr
    /\ model = NoAttr
    /\ err = "none"
    /\ pc = "new"
    /\ epoch = 0
    /\ step = 0
    /\ tb = 0
    /\ vb = 0
    /\ train_loss = RA_init
    /\ train_val_loss = RA_init
    /\ train_dataset = <<>>
    /\ train_val_dataset = <<>>
    /\ opt_steps = 0
    /\ val_seen = 0
    /\ NoParams
    /\ shared_in = EmptyDict

\* train(dataset_uri, shared_params) of a trial of the chain
ChainTrain(ds) ==
    /\ pc = "new"
    /\ \E sp \in ChainShared : TrainStart(ds, sp)

\* get_shared_parameters() on the trained instance
GetSharedParametersCall ==
    /\ pc = "done"
    /\ last' = Call("py", "get_shared_parameters", "none",
                    GetSharedParameters(knobs, model))
    /\ pc' = "exported"
    /\ UNCHANGED <<raVars, escVars, pyVars, epoch, step, tb, vb, train_loss,
                   train_val_loss, train_dataset, train_val_dataset, opt_steps,
                   val_seen, shared_in, params_dir, loaded, tf, tf_loaded,
                   tf_params, arg>>

\* the next trial: PyDenseNetBc(**knobs), a fresh instance
NextTrialNew ==
    /\ pc = "exported"
    /\ ~last.ret.none
    /\ model.step < MaxChainStep
    /\ pc' = "new"
    /\ model' = NoAttr
    /\ train_params' = NoAttr
    /\ opt_steps' = 0
    /\ val_seen' = 0
    /\ UNCHANGED <<raVars, escVars, paramVars, knobs, err, epoch, step, tb, vb,
                   train_loss, train_val_loss, train_dataset, train_val_dataset,
                   shared_in>>

NextChain ==
    \/ \E ds \in Datasets : ChainTrain(ds)
    \/ EpochStart
    \/ \E loss \in TrainLosses : TrainBatch(loss)
    \/ TrainPassEnd
    \/ \E loss \in ValLosses : ValBatch(loss)
    \/ EarlyStopCheck
    \/ Finish
    \/ GetSharedParametersCall
    \/ NextTrialNew

SpecChain == InitChain /\ [][NextChain]_vars

(***************************************************************************)
(* Export and import of shared parameters between two instances of one     *)
(* architecture, for architectures of any parameter names.                 *)
(***************************************************************************)
\* the names of the state dict of an architecture: those of the network
\* above, and names that contain ':', 'net' or 'step'
ShareArchs ==
    {NetNames,
     {<<"w">>, <<"m", ":", "2">>},
     {<<"a">>, <<"b">>, <<"a", ":", "b">>},
     {<<"s", "t", "e", "p">>, <<"n", "e", "t", ":", "w">>}}

\* the models an instance may hold after training
SharedModels ==
    UNION {{[set |-> TRUE, net |-> [n \in ns |-> Tensor(tv[n])], step |-> st] :
               tv \in [ns -> {1, 2}], st \in {0, MaxSharedStep}} : ns \in ShareArchs}

\* _build_model for the architecture of the model bm
BuildLike(bm) == [set |-> TRUE, net |-> [n \in DOMAIN bm.net |-> Tensor(0)], step |-> 0]

InitShare ==
    /\ ra = RA_init
    /\ ra_hist = <<>>
    /\ esc = ESC_init(-1, FALSE)
    /\ esc_log = <<>>
    /\ knobs \in ChainKnobChoices
    /\ knobs.max_trial_epochs = 1
    /\ train_params = NoAttr
    /\ model \in SharedModels
    /\ err = "none"
    /\ pc = "share"
    /\ epoch = 0
    /\ step = 0
    /\ tb = 0
    /\ vb = 0
    /\ train_loss = RA_init
    /\ train_val_loss = RA_init
    /\ train_dataset = <<>>
    /\ train_val_dataset = <<>>
    /\ opt_steps = 0
    /\ val_seen = 0
    /\ NoParams
    /\ shared_in = EmptyDict

\* get_shared_parameters() on the instance that holds the model
ExportShared ==
    /\ pc = "share"
    /\ last' = Call("py", "get_shared_parameters", "none",
                    GetSharedParameters(knobs, model))
    /\ pc' = "shared"
    /\ UNCHANGED <<raVars, escVars, pyVars, epoch, step, tb, vb, train_loss,
                   train_val_loss, train_dataset, train_val_dataset, opt_steps,
                   val_seen, shared_in, params_dir, loaded, tf, tf_loaded,
                   tf_params, arg>>

\* _build_model and _load_shared_parameters(sp) on a second instance
ImportShared ==
    /\ pc = "shared"
    /\ \E sp \in {EmptyDict} \cup (IF last.ret.none THEN {} ELSE {last.ret.params}) :
          LET res == LoadSharedParameters(BuildLike(model), sp)
          IN  /\ loaded' = [PyNew(knobs) EXCEPT !.model = res.model]
              /\ err' = res.err
              /\ shared_in' = sp
    /\ pc' = "share_loaded"
    /\ UNCHANGED <<raVars, escVars, knobs, train_params, model, epoch, step, tb, vb,
                   train_loss, train_val_loss, train_dataset, train_val_dataset,
                   opt_steps, val_seen, params_dir, tf, tf_loaded, tf_params, arg,
                   last>>

NextShare == ExportShared \/ ImportShared

SpecShare == InitShare /\ [][NextShare]_vars

(***************************************************************************)
(* _load_train_dataset on datasets of any size.                            *)
(***************************************************************************)
MaxSplitSize == 40

SplitKnobChoices ==
    [max_trial_epochs : {1},
     batch_size : {2},
     early_stop_patience_epochs : {1},
     max_train_val_samples : {0, 1, 3, 1024},
     drop_rate : {0},
     if_share_params : {TRUE}]

\* the datasets loaded: sample i of a dataset is the number i
SplitDatasets ==
    {[size |-> n, classes |-> 10, image_size |-> 32,
      mean |-> DatasetStats(n).mean, std |-> DatasetStats(n).std] : n \in 1..MaxSplitSize}

InitSplit ==
    /\ ra = RA_init
    /\ ra_hist = <<>>
    /\ esc = ESC_init(-1, FALSE)
    /\ esc_log = <<>>
    /\ knobs \in SplitKnobChoices
    /\ train_params = NoAttr
    /\ model = NoAttr
    /\ err = "none"
    /\ pc = "split"
    /\ epoch = 0
    /\ step = 0
    /\ tb = 0
    /\ vb = 0
    /\ train_loss = RA_init
    /\ train_val_loss = RA_init
    /\ train_dataset = <<>>
    /\ train_val_dataset = <<>>
    /\ opt_steps = 0
    /\ val_seen = 0
    /\ NoParams
    /\ shared_in = EmptyDict

\* (train_dataset, train_val_dataset, self._train_params) =
\*     self._load_train_dataset(dataset_uri)
LoadTrainDatasetCall(ds) ==
    /\ pc = "split"
    /\ LET ld == LoadTrainDataset(knobs, ds)
       IN  /\ train_params' = ld.params
           /\ train_dataset' = ld.train
           /\ train_val_dataset' = ld.train_val
    /\ pc' = "split_done"
    /\ UNCHANGED <<raVars, escVars, paramVars, knobs, model, err, epoch, step, tb, vb,
                   train_loss, train_val_loss, opt_steps, val_seen, shared_in>>

NextSplit == \E ds \in SplitDatasets : LoadTrainDatasetCall(ds)

SpecSplit == InitSplit /\ [][NextSplit]_vars

(***************************************************************************)
(* Reference notions the properties are stated with, computed from the     *)
(* logged values alone.                                                    *)
(***************************************************************************)
RECURSIVE SumSeq(_)
SumSeq(sq) == IF sq = <<>> THEN 0 ELSE Head(sq) + SumSeq(Tail(sq))

MaxAbsOf(sq) ==
    IF sq = <<>> THEN 0
    ELSE CHOOSE mv \in {AbsInt(sq[qi]) : qi \in 1..Len(sq)} :
            \A qj \in 1..Len(sq) : AbsInt(sq[qj]) <= mv

TolBits == MantissaBits - 5

\* |tx - num / den| <= scale * 2^(-TolBits), in exact arithmetic
WithinTol(tx, num, den, scale) ==
    LET tK == Max2(-tx.e, TolBits)
        tA == BShl(BMulSmall(tx.m, den), tx.e + tK)
        tS == BShl(BFromNat(AbsInt(num)), tK)
        sameSign == (tx.s >= 0 /\ num >= 0) \/ (tx.s <= 0 /\ num <= 0)
        tDiff == IF ~sameSign THEN BAdd(tA, tS)
                 ELSE IF BCmp(tA, tS) >= 0 THEN BSub(tA, tS) ELSE BSub(tS, tA)
        tBound == BShl(BFromNat(den * scale), tK - TolBits)
    IN  BCmp(tDiff, tBound) <= 0

\* best value among the first bn logged values (the initial best if none)
RefBest(bn) ==
    IF bn = 0 THEN (IF esc.if_max THEN NegInf ELSE PosInf)
    ELSE LET seen == {esc_log[bi].value : bi \in 1..bn}
         IN  IF esc.if_max
             THEN CHOOSE bv \in seen : \A bw \in seen : ~FLess(bv, bw)
             ELSE CHOOSE bv \in seen : \A bw \in seen : ~FLess(bw, bv)

\* the in-th logged value is strictly better than all values before it
RefImproves(in) ==
    IF esc.if_max THEN FLess(RefBest(in - 1), esc_log[in].value)
    ELSE FLess(esc_log[in].value, RefBest(in - 1))

\* consecutive non-improving values up to and including the wn-th
RefWait(wn) ==
    LET imp == {wi \in 1..wn : RefImproves(wi)}
    IN  IF imp = {} THEN wn
        ELSE wn - (CHOOSE wi \in imp : \A wj \in imp : wj <= wi)

LogValues == [li \in 1..Len(esc_log) |-> esc_log[li].value]
LogRets == [li \in 1..Len(esc_log) |-> esc_log[li].ret]
LogWaits == [li \in 1..Len(esc_log) |-> esc_log[li].wait]

IsPrefix(short, long) ==
    Len(short) <= Len(long) /\ short = SubSeq(long, 1, Len(short))

ExampleValues == <<FromInt(5), FromInt(4), FromInt(6), FromInt(7)>>

(***************************************************************************)
(* Properties                                                              *)
(***************************************************************************)

\* C1: in an active EarlyStopCondition every check returns true exactly
\* when the wait-counter after the call (the number of consecutive
\* non-improving values since the last new best) is >= patience; with
\* patience 2, minimising, the values 5,4,6,7 give wait-counters 0,0,1,2
\* and results false,false,false,true.
C1_CheckSignalsAtPatience ==
    esc.patience >= 0 =>
        /\ \A i \in 1..Len(esc_log) :
              /\ esc_log[i].wait = RefWait(i)
              /\ esc_log[i].ret = (RefWait(i) >= esc.patience)
        /\ (esc.patience = 2 /\ ~esc.if_max /\ IsPrefix(LogValues, ExampleValues)) =>
              /\ IsPrefix(LogWaits, <<0, 0, 1, 2>>)
              /\ IsPrefix(LogRets, <<FALSE, FALSE, FALSE, TRUE>>)

C1_Witness ==
    /\ esc.patience = 2
    /\ ~esc.if_max
    /\ LogValues = ExampleValues
    /\ esc_log[4].ret

\* C2: with patience 0 the first check that returns true is the first one
\* whose value does not improve on the best seen so far; every improving
\* check before it returns false.
C2_PatienceZeroFirstNonImproving ==
    esc.patience = 0 =>
        \A i \in 1..Len(esc_log) :
            (\A j \in 1..(i - 1) : ~esc_log[j].ret) =>
                (esc_log[i].ret <=> ~RefImproves(i))

\* C3: with patience < 0 check never returns true, whatever the values and
\* the direction.
C3_DisabledNeverTriggers ==
    esc.patience < 0 => \A i \in 1..Len(esc_log) : ~esc_log[i].ret

C3_Witness ==
    /\ esc.patience < 0
    /\ esc.if_max
    /\ Len(esc_log) >= 3
    /\ \E i \in 2..Len(esc_log) : ~RefImproves(i)

\* C4: in an active EarlyStopCondition a check with a strictly better value
\* sets the wait-counter to 0 and best-seen to the value; any other check
\* (an equal value included) adds one to the wait-counter and leaves
\* best-seen; so best-seen is the minimum (maximum when maximising) of the
\* values checked.
C4_ResetOrIncrement ==
    esc.patience >= 0 =>
        /\ \A i \in 1..Len(esc_log) :
              LET pb == IF i = 1 THEN RefBest(0) ELSE esc_log[i - 1].best
                  pw == IF i = 1 THEN 0 ELSE esc_log[i - 1].wait
                  v == esc_log[i].value
                  better == IF esc.if_max THEN FLess(pb, v) ELSE FLess(v, pb)
              IN  /\ better => esc_log[i].wait = 0 /\ esc_log[i].best = v
                  /\ ~better => esc_log[i].wait = pw + 1 /\ esc_log[i].best = pb
                  /\ esc_log[i].best = RefBest(i)
        /\ esc.last_best = RefBest(Len(esc_log))
        /\ esc_log # <<>> =>
              esc.wait_count = esc_log[Len(esc_log)].wait

C4_Witness ==
    /\ esc.patience >= 0
    /\ Len(esc_log) >= 3
    /\ esc_log[1].wait = 0
    /\ esc_log[2].value = esc_log[1].value
    /\ esc_log[2].wait = 1
    /\ esc_log[3].wait = 0

\* C5 as stated: get() is exactly the arithmetic mean (the float nearest to
\* sum / count) of the values added.
C5_ExactMean ==
    ra_hist # <<>> =>
        RA_get(ra) = FDivInt(FromInt(SumSeq(ra_hist)), Len(ra_hist))

\* C5: get() is the arithmetic mean of the values added up to rounding
\* (at most 2^-TolBits times the largest magnitude added), it is 0 when
\* nothing was added, and the count is the number of add calls.
C5_MeanWithinTolerance ==
    /\ ra.count = Len(ra_hist)
    /\ ra_hist = <<>> => RA_get(ra) = FZero
    /\ ra_hist # <<>> =>
          WithinTol(RA_get(ra), SumSeq(ra_hist), Len(ra_hist), MaxAbsOf(ra_hist))

C5_Witness ==
    /\ ra_hist = <<-2, -2, -1>>
    /\ ra.count = 3
    /\ RA_get(ra) # FDivInt(FromInt(-5), 3)

\* the early-stop check has signalled a stop
Stopped == esc_log # <<>> /\ esc_log[Len(esc_log)].ret

\* C6: the training loop ends after at most max_trial_epochs epochs, and a
\* stop signal breaks it at once: after the check returned true no further
\* training batch, optimizer step or validation batch runs, and the step
\* count reached is the one recorded in the model.
C6_TerminatesAndBreaks ==
    /\ [](pc \in {"train", "val"} => epoch < knobs.max_trial_epochs)
    /\ [](pc \in {"finish", "done"} => epoch <= knobs.max_trial_epochs)
    /\ [][Stopped => /\ pc' \in {"finish", "done"}
                     /\ step' = step
                     /\ opt_steps' = opt_steps
                     /\ val_seen' = val_seen
                     /\ epoch' = epoch
                     /\ model'.net = model.net]_vars
    /\ [](pc = "done" => model.step = step)
    /\ <>(pc \in {"done", "error"})

C6_Witness ==
    /\ pc = "done"
    /\ Stopped
    /\ epoch + 1 < knobs.max_trial_epochs
    /\ step > 0
    /\ model.step = step

\* names of the 'net:' entries of a shared-parameter mapping
SharedNetKeys(sp) == {sk \in DOMAIN sp : StartsWith(sk, NetPrefix \o <<":">>)}

\* the call of _load_shared_parameters has just returned
AfterLoadShared == pc = "epoch" /\ epoch = 0

\* C7: a non-empty shared-parameter mapping whose 'net:' keys differ from
\* the model's parameter names (missing, extra or renamed) is loaded
\* without an error: the entries with a matching name are loaded, the other
\* weights stay as built.
C7_SharedMismatchTolerated ==
    (/\ pc # "new"
     /\ shared_in # EmptyDict
     /\ SharedNetKeys(shared_in) # {FormatKey(NetPrefix, n) : n \in NetNames}) =>
        /\ err = "none"
        /\ pc # "error"
        /\ AfterLoadShared =>
              /\ DOMAIN model.net = NetNames
              /\ \A n \in NetNames :
                    model.net[n] =
                        IF FormatKey(NetPrefix, n) \in DOMAIN shared_in
                        THEN Tensor(shared_in[FormatKey(NetPrefix, n)].v)
                        ELSE DenseNet(train_params.d["K"], knobs.drop_rate)[n]
              /\ model.step = shared_in[StepKey].v

C7_Witness ==
    /\ AfterLoadShared
    /\ err = "none"
    /\ FormatKey(NetPrefix, <<"m">>) \notin DOMAIN shared_in
    /\ FormatKey(NetPrefix, <<"m", ":", "2">>) \in DOMAIN shared_in
    /\ model.net[<<"w">>] = Tensor(7)
    /\ model.net[<<"m">>] = Tensor(0)
    /\ model.step = MaxSharedStep

\* the last call was PyDenseNetBc.load_parameters on a directory that has
\* both files and the class count its model is built from
PyImportCalled ==
    /\ last.cls = "py"
    /\ last.op = "load_parameters"
    /\ {"model.pt", "train_params.json"} \subseteq DOMAIN arg
    /\ "K" \in DOMAIN JsonLoadsDict(arg["train_params.json"])

\* the weight mapping of the directory load_parameters was called with
SavedWeights == TorchLoad(arg["model.pt"])

\* C8 (as stated): load_parameters builds a fresh model and applies the saved
\* weights by name, best effort: with keys missing from or extra in the
\* saved mapping the import still succeeds.
C8_ImportBestEffort ==
    (PyImportCalled /\ DOMAIN SavedWeights # NetNames) =>
        /\ last.err = "none"
        /\ loaded.model.set
        /\ \A n \in NetNames \cap DOMAIN SavedWeights :
              loaded.model.net[n] = SavedWeights[n]

\* C8 (amended): load_parameters builds a fresh model and applies the saved
\* weights by name, strictly: it succeeds exactly when the saved names are
\* the names of the fresh model, and then the model holds the saved weights;
\* with a key missing or extra it raises RuntimeError.
C8_ImportStrict ==
    PyImportCalled =>
        /\ loaded.model.set
        /\ DOMAIN loaded.model.net = NetNames
        /\ loaded.model.step = 0
        /\ last.err = (IF DOMAIN SavedWeights = NetNames THEN "none" ELSE "RuntimeError")
        /\ last.err = "none" => loaded.model.net = SavedWeights

C8_Witness ==
    /\ PyImportCalled
    /\ <<"x">> \in DOMAIN SavedWeights
    /\ last.err = "RuntimeError"

\* the preprocessing metadata evaluation needs is absent: train_params.json
\* is not in the directory, a metadata key is not in the dictionary, or the
\* instance evaluated was neither trained nor loaded
MetadataAbsent ==
    \/ /\ last.cls = "py" /\ last.op = "load_parameters"
       /\ "train_params.json" \notin DOMAIN arg
    \/ /\ last.cls = "tf" /\ last.op = "load_parameters"
       /\ {"image_size", "normalize_mean", "normalize_std"} \ DOMAIN arg # {}
    \/ /\ last.op = "evaluate"
       /\ pc \in {"saved", "tf_dumped"}

\* C9: when the preprocessing metadata is absent the operation fails with an
\* error, returns no accuracy and leaves no model loaded in the instance.
C9_AbsentMetadataFails ==
    MetadataAbsent =>
        /\ last.err # "none"
        /\ last.ret # "accuracy"
        /\ last.cls = "py" => ~loaded.model.set
        /\ last.cls = "tf" => ~tf_loaded.model.set

\* the last load_parameters call was given what the trained instance exported
PyRoundTrip == pc = "imported" /\ arg = params_dir
TfRoundTrip == pc = "tf_imported" /\ arg = tf_params

\* C10: after save_parameters on a trained PyDenseNetBc and load_parameters
\* on a fresh instance of the same knobs, and after dump_parameters and
\* load_parameters of TfVgg16, the fresh instance holds the same weights
\* (names and values) and the same preprocessing metadata (normalization
\* mean and std, image size, class count) as the exporting instance.
C10_ExportImportRoundTrip ==
    /\ PyRoundTrip =>
          /\ last.op = "load_parameters" => last.err = "none"
          /\ loaded.knobs = knobs
          /\ loaded.model.set
          /\ loaded.model.net = model.net
          /\ loaded.train_params.set
          /\ \A k \in {"norm_mean", "norm_std", "image_size", "K"} :
                loaded.train_params.d[k] = train_params.d[k]
    /\ TfRoundTrip =>
          /\ last.op = "load_parameters" => last.err = "none"
          /\ tf_loaded.model.set
          /\ tf_loaded.model.v.weights = tf.model.v.weights
          /\ tf_loaded.model.v.num_classes = tf.model.v.num_classes
          /\ tf_loaded.image_size = tf.image_size
          /\ tf_loaded.normalize_mean = tf.normalize_mean
          /\ tf_loaded.normalize_std = tf.normalize_std

C10_Witness ==
    /\ PyRoundTrip
    /\ last.op = "load_parameters"
    /\ model.step > 0
    /\ model.net[<<"w">>] # Tensor(0)
    /\ loaded.model.net = model.net
    /\ loaded.train_params.d["norm_mean"] =
          FloatList(<<DecimalToFloat(1, 485, 3), DecimalToFloat(1, 456, 3),
                      DecimalToFloat(1, 406, 3)>>)

\* the early-stop checks made so far in the loop of _train_model
ChecksMade == Len(esc_log)

\* C11: with a non-empty train-val dataset every epoch makes exactly one
\* early-stop check, after all training batches and all train-val batches of
\* that epoch and on that epoch's train-val running loss; with an empty
\* train-val dataset no check is ever made, no stop is signalled and the
\* loop runs exactly max_trial_epochs epochs over all training batches.
C11_CheckOncePerEpoch ==
    /\ [](pc \in {"epoch", "train", "val", "finish", "done"} =>
            IF Len(train_val_dataset) > 0
            THEN /\ ChecksMade = (IF pc \in {"finish", "done"} /\ Stopped
                                  THEN epoch + 1 ELSE epoch)
                 /\ (pc \in {"epoch", "train", "val"}) => ~Stopped
                 /\ (esc_log # <<>> /\ pc # "val") =>
                       /\ esc_log[ChecksMade].value = RA_get(train_val_loss)
                       /\ train_val_loss.count =
                             NumBatches(train_val_dataset, knobs.batch_size)
            ELSE /\ ChecksMade = 0
                 /\ val_seen = 0
                 /\ pc \in {"finish", "done"} =>
                       /\ epoch = knobs.max_trial_epochs
                       /\ opt_steps = knobs.max_trial_epochs *
                             NumBatches(train_dataset, knobs.batch_size))
    /\ [][(pc # "new" /\ esc_log' # esc_log) =>
             /\ Len(train_val_dataset) > 0
             /\ pc = "val"
             /\ tb = NumBatches(train_dataset, knobs.batch_size)
             /\ vb = NumBatches(train_val_dataset, knobs.batch_size)
             /\ train_val_loss.count = vb
             /\ Len(esc_log') = Len(esc_log) + 1
             /\ esc_log'[Len(esc_log')].value = RA_get(train_val_loss)
             /\ SubSeq(esc_log', 1, Len(esc_log)) = esc_log]_vars

C11_Witness ==
    /\ pc = "done"
    /\ Len(train_val_dataset) > 0
    /\ ~Stopped
    /\ epoch = MaxTrialEpochs
    /\ ChecksMade = MaxTrialEpochs
    /\ esc_log[1].value # esc_log[2].value

\* the trial whose configuration was asked for is one of the last
\* NumFinalTrials trials
IsFinalTrial == pc # "trial" /\ (arg[2] - arg[1]) < NumFinalTrials

\* C12: a final trial (total_trials - trial_no < 10) gets SharedParams.NONE
\* and the overrides max_trial_epochs = 300, max_train_val_samples = 0, and
\* its train run has an empty train-val split, makes no early-stop check and
\* ends after all 300 epochs on every dataset; any other trial gets
\* SharedParams.LOCAL_BEST, should_save = False and no overrides.
C12_FinalTrialConfig ==
    pc # "trial" =>
        IF IsFinalTrial
        THEN /\ last.ret = [override_knobs |-> [max_trial_epochs |-> 300,
                                                max_train_val_samples |-> 0],
                            shared_params |-> "NONE"]
             /\ knobs.max_trial_epochs = 300
             /\ knobs.max_train_val_samples = 0
             /\ train_val_dataset = <<>>
             /\ esc_log = <<>>
             /\ val_seen = 0
             /\ pc \in {"train", "epoch"} => epoch < 300
             /\ pc \in {"finish", "done"} =>
                   /\ epoch = 300
                   /\ opt_steps = 300 * NumBatches(train_dataset, knobs.batch_size)
        ELSE /\ last.ret = [shared_params |-> "LOCAL_BEST", should_save |-> FALSE]
             /\ \E kn \in ParamKnobChoices : knobs = kn

C12_Witness ==
    /\ IsFinalTrial
    /\ arg = <<2, 11>>
    /\ pc = "done"
    /\ epoch = 300
    /\ Len(train_dataset) = 15
    /\ opt_steps = 2400

\* the step taken is one batch of the training pass of _train_model
IsTrainBatch == pc = "train" /\ tb' = tb + 1

\* the step taken is one batch of the train-val pass
IsValBatch == pc = "val" /\ vb' = vb + 1

\* C13: inside _train_model the weights of the model and the step counter
\* change only in the training pass: a training batch applies exactly one
\* optimizer step and adds exactly one to the step counter; a batch of the
\* train-val pass applies no optimizer step, changes no weight and leaves
\* the step counter.
C13_WeightsChangeOnlyInTraining ==
    [][/\ IsTrainBatch => /\ opt_steps' = opt_steps + 1
                          /\ step' = step + 1
       /\ IsValBatch => /\ opt_steps' = opt_steps
                        /\ step' = step
                        /\ model'.net = model.net
       /\ (pc # "new" /\ ~IsTrainBatch) => /\ model'.net = model.net
                                           /\ step' = step]_vars

\* the step a train call starts from: 0 for the freshly built model, or the
\* step carried by the shared parameters it loaded
StartStep == IF shared_in = EmptyDict THEN 0 ELSE IntOf(shared_in[StepKey])

\* training batches processed so far by the train call
BatchesProcessed ==
    LET nb == NumBatches(train_dataset, knobs.batch_size)
        passes == IF pc = "val" \/ (pc \in {"finish", "done", "exported"} /\ Stopped)
                  THEN epoch + 1 ELSE epoch
    IN  passes * nb + (IF pc = "train" THEN tb ELSE 0)

\* get_shared_parameters has returned a mapping
Exported(call) == call.op = "get_shared_parameters" /\ ~call.ret.none

\* C14: the step counter never decreases during a train call; it starts at
\* 0 for a freshly built model or at the step carried by the loaded shared
\* parameters, ends at start + the number of training batches processed,
\* and that value is what get_shared_parameters exports under 'step'; along
\* a chain of trials, each loading what the one before exported, the
\* exported step never decreases.
C14_StepMonotonic ==
    /\ [](pc \in {"epoch", "train", "val", "finish", "done", "exported"} =>
            /\ step = StartStep + BatchesProcessed
            /\ BatchesProcessed = opt_steps)
    /\ [](pc \in {"done", "exported"} => model.step = step)
    /\ []((pc = "exported" /\ Exported(last)) =>
            /\ DOMAIN last.ret.params =
                  {FormatKey(NetPrefix, n) : n \in NetNames} \cup {StepKey}
            /\ last.ret.params[StepKey] = AsArray(StartStep + BatchesProcessed))
    /\ [][pc # "new" => step' >= step]_vars
    /\ [][(Exported(last) /\ pc = "new") =>
             /\ shared_in' = last.ret.params
             /\ step' = IntOf(last.ret.params[StepKey])]_vars
    /\ [][(Exported(last) /\ Exported(last')) =>
             IntOf(last'.ret.params[StepKey]) >= IntOf(last.ret.params[StepKey])]_vars

C14_Witness ==
    /\ pc = "exported"
    /\ Exported(last)
    /\ shared_in # EmptyDict
    /\ IntOf(shared_in[StepKey]) = MaxSharedStep + 2
    /\ IntOf(last.ret.params[StepKey]) = MaxSharedStep + 4
    /\ model.net[<<"w">>] = Tensor(7 + 4)

\* C15: with if_share_params true get_shared_parameters returns a mapping
\* with exactly one 'net:<name>' entry per weight of the model, holding that
\* weight, plus 'step' (and None with the knob false); loaded into a freshly
\* built model of the same architecture it restores every weight under its
\* name, also names that contain ':', and sets the step to the exported one;
\* an empty mapping leaves the fresh model and its step 0.
C15_SharedRoundTrip ==
    /\ pc \in {"shared", "share_loaded"} =>
          IF knobs.if_share_params
          THEN /\ ~last.ret.none
               /\ DOMAIN last.ret.params =
                     {FormatKey(NetPrefix, n) : n \in DOMAIN model.net} \cup {StepKey}
               /\ Cardinality(DOMAIN last.ret.params) =
                     Cardinality(DOMAIN model.net) + 1
               /\ \A n \in DOMAIN model.net :
                     last.ret.params[FormatKey(NetPrefix, n)] = ToNumpy(model.net[n])
               /\ last.ret.params[StepKey] = AsArray(model.step)
          ELSE last.ret = [none |-> TRUE]
    /\ pc = "share_loaded" =>
          /\ err = "none"
          /\ loaded.model.set
          /\ IF shared_in = EmptyDict
             THEN /\ loaded.model.step = 0
                  /\ loaded.model.net = [n \in DOMAIN model.net |-> Tensor(0)]
             ELSE /\ loaded.model.step = model.step
                  /\ loaded.model.net = model.net

C15_Witness ==
    /\ pc = "share_loaded"
    /\ shared_in # EmptyDict
    /\ DOMAIN model.net = {<<"a">>, <<"b">>, <<"a", ":", "b">>}
    /\ model.net[<<"a">>] = Tensor(1)
    /\ model.net[<<"b">>] = Tensor(1)
    /\ loaded.model.net[<<"a", ":", "b">>] = Tensor(2)
    /\ loaded.model.step = MaxSharedStep

\* the samples of a part of the split
SamplesOf(part) == {part[i] : i \in 1..Len(part)}

\* C16: _load_train_dataset puts the first min(N // 5, max_train_val_samples)
\* of the N samples into the train-val part and all the others into the
\* train part: the parts are disjoint, together hold every sample exactly
\* once, and the train-val part has at most N / 5 and at most
\* max_train_val_samples samples.
C16_SplitPartition ==
    pc = "split_done" =>
        LET N == train_params.d["N"].i
            cap == knobs.max_train_val_samples
            fifth == CHOOSE q \in 0..N : 5 * q <= N /\ N < 5 * (q + 1)
            k == IF fifth <= cap THEN fifth ELSE cap
        IN  /\ Len(train_val_dataset) = k
            /\ train_val_dataset = [i \in 1..k |-> i]
            /\ train_dataset = [i \in 1..(N - k) |-> k + i]
            /\ SamplesOf(train_val_dataset) \cap SamplesOf(train_dataset) = {}
            /\ SamplesOf(train_val_dataset) \cup SamplesOf(train_dataset) = 1..N
            /\ Len(train_val_dataset) + Len(train_dataset) = N
            /\ 5 * Len(train_val_dataset) <= N
            /\ Len(train_val_dataset) <= cap

C16_Witness ==
    /\ pc = "split_done"
    /\ train_params.d["N"].i = 39
    /\ knobs.max_train_val_samples = 3
    /\ train_val_dataset = <<1, 2, 3>>
    /\ Len(train_dataset) = 36

\* some check before the cn-th returned true
SignalledBefore(cn) == \E i \in 1..(cn - 1) : esc_log[i].ret

\* C17: the stop signal is not latched: with patience >= 1, after check has
\* returned true the object still takes checks, and a later check with a
\* value strictly better than the best seen sets the wait-counter to 0,
\* records the value as best and returns false; the settings of the object
\* never change.
C17_StopNotLatched ==
    /\ [](esc.patience >= 1 =>
            \A j \in 1..Len(esc_log) :
                (SignalledBefore(j) /\ RefImproves(j)) =>
                    /\ ~esc_log[j].ret
                    /\ esc_log[j].wait = 0
                    /\ esc_log[j].best = esc_log[j].value)
    /\ [][/\ esc'.patience = esc.patience
          /\ esc'.if_max = esc.if_max
          /\ (esc.patience >= 1 /\ Stopped /\ Len(esc_log) < MaxChecks) =>
                \A v \in ESCValues : ENABLED ESCCheck(v)]_vars

C17_Witness ==
    /\ esc.patience = 1
    /\ ~esc.if_max
    /\ Len(esc_log) = 4
    /\ ~esc_log[1].ret
    /\ esc_log[2].ret
    /\ esc_log[3].ret
    /\ ~esc_log[4].ret
    /\ esc_log[4].wait = 0
    /\ esc.wait_count = 0

====
